---------------------------- MODULE Spec2Model ----------------------------
(***************************************************************************)
(* A model of the NGEN consultor: the rate table loader and the cost       *)
(* estimator (tools/cost_calculator.py), the document sectionizer and the  *)
(* requirement classifier (tools/document_extractor.py), the conversation  *)
(* orchestrator (agents/description_agent.py) behind the chat page         *)
(* (main_app.py), and the report files (utils/file_utils.py).              *)
(*                                                                         *)
(* Python strings that the code takes apart (strip, split, lower, `in`,    *)
(* startswith, replace) are sequences of one-character strings, so that    *)
(* these operations are computed and not assumed.  Fixed template text     *)
(* that is only ever concatenated is kept as one element of such a         *)
(* sequence.                                                               *)
(***************************************************************************)
EXTENDS Integers, Sequences, FiniteSets, TLC

VARIABLES
    payFile,    \* data/pays.txt: [exists, readable, lines]
    costRet,    \* the last call into cost_calculator.py and what it returned
    estimated,  \* the task whose hours are estimated: [description, role]
    doc,        \* data/questioner.docx: [exists, readable, paragraphs]
    docRet,     \* the last call into document_extractor.py and what it returned
    reply,      \* a model reply handed to _parse_model_response
    parseRet,   \* what _parse_model_response returned for it
    messages,   \* st.session_state.messages: the chat history, [role, content] each
    orch,       \* the orchestrator call in progress: where it is suspended and its locals
    calls,      \* the delegations (agent.on_messages) of the call in progress, with outcomes
    writes,     \* the report writes of the call in progress, in order
    files,      \* the report files on disk: path -> what was written there
    agentRet,   \* what the last orchestrator call returned or raised
    agent,      \* st.session_state.agent, the DescriptionAgent object
    fileRet     \* the last call into utils/file_utils.py and what it returned

costVars == <<payFile, costRet, estimated>>
docVars == <<doc, docRet>>
parseVars == <<reply, parseRet>>
agentVars == <<messages, orch, calls, writes, files, agentRet, agent>>
fileVars == <<fileRet>>
vars == <<payFile, costRet, estimated, doc, docRet, reply, parseRet,
          messages, orch, calls, writes, files, agentRet, agent, fileRet>>

(***************************************************************************)
(* Python str and list primitives, on sequences of characters.             *)
(***************************************************************************)
\* str.isspace for one character (the whitespace str.strip and str.split use).
IsSpace(c) == c \in {" ", "\n", "\t", "\r"}

Last(s) == s[Len(s)]

Front(s) == SubSeq(s, 1, Len(s) - 1)

RECURSIVE LStrip(_)
LStrip(s) ==
    IF s # <<>> /\ IsSpace(Head(s)) THEN LStrip(Tail(s)) ELSE s

RECURSIVE RStrip(_)
RStrip(s) ==
    IF s # <<>> /\ IsSpace(Last(s)) THEN RStrip(Front(s)) ELSE s

\* str.strip()
Strip(s) == RStrip(LStrip(s))

\* str.split() with no separator: the maximal runs of non-whitespace.
RECURSIVE SplitWsFrom(_, _, _)
SplitWsFrom(s, cur, acc) ==
    IF s = <<>>
    THEN IF cur = <<>> THEN acc ELSE Append(acc, cur)
    ELSE IF IsSpace(Head(s))
         THEN SplitWsFrom(Tail(s), <<>>, IF cur = <<>> THEN acc ELSE Append(acc, cur))
         ELSE SplitWsFrom(Tail(s), Append(cur, Head(s)), acc)

SplitWs(s) == SplitWsFrom(s, <<>>, <<>>)

\* sep.join(parts)
RECURSIVE Join(_, _)
Join(sep, parts) ==
    IF parts = <<>> THEN <<>>
    ELSE IF Len(parts) = 1 THEN parts[1]
    ELSE parts[1] \o sep \o Join(sep, Tail(parts))

\* s.startswith(p)
StartsWith(s, p) == Len(s) >= Len(p) /\ SubSeq(s, 1, Len(p)) = p

\* The first index at or after `from` where sub occurs in s, 0 when none (str.find + 1).
RECURSIVE FindFrom(_, _, _)
FindFrom(s, sub, from) ==
    IF from + Len(sub) - 1 > Len(s) THEN 0
    ELSE IF SubSeq(s, from, from + Len(sub) - 1) = sub THEN from
    ELSE FindFrom(s, sub, from + 1)

\* sub in s
Contains(s, sub) == FindFrom(s, sub, 1) # 0

\* s.split(sep) for a non-empty sep: cut at each occurrence, left to right.
RECURSIVE SplitOn(_, _)
SplitOn(s, sep) ==
    LET k == FindFrom(s, sep, 1) IN
    IF k = 0 THEN <<s>>
    ELSE <<SubSeq(s, 1, k - 1)>> \o SplitOn(SubSeq(s, k + Len(sep), Len(s)), sep)

\* s.replace(old, new) for a non-empty old
Replace(s, old, new) == Join(new, SplitOn(s, old))

UpperCase == <<"A","B","C","D","E","F","G","H","I","J","K","L","M",
               "N","O","P","Q","R","S","T","U","V","W","X","Y","Z">>

LowerCase == <<"a","b","c","d","e","f","g","h","i","j","k","l","m",
               "n","o","p","q","r","s","t","u","v","w","x","y","z">>

LowerChar(c) ==
    IF \E i \in 1..Len(UpperCase) : UpperCase[i] = c
    THEN LowerCase[CHOOSE i \in 1..Len(UpperCase) : UpperCase[i] = c]
    ELSE c

\* str.lower()
Lower(s) == [i \in 1..Len(s) |-> LowerChar(s[i])]

Digits == <<"0","1","2","3","4","5","6","7","8","9">>

IsDigit(c) == \E i \in 1..10 : Digits[i] = c

DigitVal(c) == (CHOOSE i \in 1..10 : Digits[i] = c) - 1

RECURSIVE DigitsVal(_)
DigitsVal(s) == IF s = <<>> THEN 0 ELSE 10 * DigitsVal(Front(s)) + DigitVal(Last(s))

\* str(n) for an integer n
RECURSIVE NatStr(_)
NatStr(n) == IF n < 10 THEN <<Digits[n + 1]>> ELSE NatStr(n \div 10) \o <<Digits[(n % 10) + 1]>>

IntStr(n) == IF n < 0 THEN <<"-">> \o NatStr(-n) ELSE NatStr(n)

\* Whether float(tok) returns, for a token of letters, digits and signs: an optional
\* sign and then one or more digits.  (The tokens of the inputs hold no ".", "e", "_"
\* and spell none of inf, nan, infinity.)
FloatParses(tok) ==
    LET body == IF tok # <<>> /\ Head(tok) \in {"-", "+"} THEN Tail(tok) ELSE tok IN
    /\ body # <<>>
    /\ \A i \in 1..Len(body) : IsDigit(body[i])

\* float(tok) where it returns
FloatValue(tok) ==
    IF Head(tok) = "-" THEN 0 - DigitsVal(Tail(tok))
    ELSE IF Head(tok) = "+" THEN DigitsVal(Tail(tok))
    ELSE DigitsVal(tok)

(***************************************************************************)
(* Python dicts as functions.                                              *)
(***************************************************************************)
EmptyDict == [k \in {} |-> 0]

\* d[k] = v
Put(d, k, v) == [x \in (DOMAIN d) \cup {k} |-> IF x = k THEN v ELSE d[x]]

(***************************************************************************)
(* utils/config.py                                                         *)
(***************************************************************************)
ENGINEERING_ROLES ==
    (<<"F","r","o","n","t","e","n","d"," ","E","n","g","i","n","e","e","r">> :> 10)
    @@ (<<"B","a","c","k","e","n","d"," ","E","n","g","i","n","e","e","r">> :> 7)
    @@ (<<"D","a","t","a","b","a","s","e"," ","E","n","g","i","n","e","e","r">> :> 12)
    @@ (<<"C","l","o","u","d"," ","E","n","g","i","n","e","e","r">> :> 15)
    @@ (<<"T","e","s","t","i","n","g"," ","E","n","g","i","n","e","e","r">> :> 7)

(***************************************************************************)
(* tools/cost_calculator.py: load_hourly_rates                             *)
(***************************************************************************)
\* The for loop of lines 18-25 from line i on.  float() raising ValueError leaves
\* the loop (the try of line 16 encloses the whole loop); the entries stored so
\* far stay in rates.
RECURSIVE ReadRateLines(_, _, _)
ReadRateLines(lines, i, rates) ==
    IF i > Len(lines) THEN [rates |-> rates, raised |-> FALSE]
    ELSE LET line == Strip(lines[i])
             parts == SplitWs(line)
         IN  IF line = <<>> THEN ReadRateLines(lines, i + 1, rates)
             ELSE IF Len(parts) >= 2
                  THEN IF FloatParses(Last(parts))
                       THEN ReadRateLines(lines, i + 1,
                                Put(rates, Join(<<" ">>, Front(parts)), FloatValue(Last(parts))))
                       ELSE [rates |-> rates, raised |-> TRUE]
                  ELSE ReadRateLines(lines, i + 1, rates)

\* Lines 13-27: the rates read before the fallback.  open() raising is caught too.
ReadRates(file) ==
    IF file.exists
    THEN IF file.readable THEN ReadRateLines(file.lines, 1, EmptyDict).rates
         ELSE EmptyDict
    ELSE EmptyDict

WithFallbackMerged(rates) ==
    [r \in (DOMAIN ENGINEERING_ROLES) \cup (DOMAIN rates) |->
        IF r \in DOMAIN rates THEN rates[r] ELSE ENGINEERING_ROLES[r]]

\* Lines 30-31: the default table when nothing was read.
WithFallback(rates) == IF DOMAIN rates = {} THEN ENGINEERING_ROLES ELSE rates

load_hourly_rates(file) == WithFallback(ReadRates(file))

(***************************************************************************)
(* tools/cost_calculator.py: calculate_task_cost                           *)
(***************************************************************************)
RoleNotFound(role) ==
    <<"Role '">> \o role \o <<"' not found in hourly rates">>

LookupRoleFolded(role, rates) ==
    IF \E r \in DOMAIN rates : Lower(r) = Lower(role)
    THEN CHOOSE r \in DOMAIN rates : Lower(r) = Lower(role)
    ELSE role

\* The key looked up in the table: the role as given (`role not in rates`, rates[role]).
LookupRole(role, rates) == role

calculate_task_cost(role, hours, file) ==
    LET rates == load_hourly_rates(file)
        key == LookupRole(role, rates)
    IN  IF key \notin DOMAIN rates
        THEN [error |-> RoleNotFound(role), role |-> role, hours |-> hours,
              rate |-> 0, total_cost |-> 0]
        ELSE [role |-> role, hours |-> hours, rate |-> rates[key],
              total_cost |-> rates[key] * hours]

(***************************************************************************)
(* tools/cost_calculator.py: calculate_project_cost                        *)
(***************************************************************************)
\* Line 69, `tasksummary.get("role", "")`: no name tasksummary is bound in the
\* function or the module, so evaluating it raises NameError.
TaskRole(task) == [raised |-> "NameError", value |-> <<>>]

\* The for loop of lines 68-77 from task i on; acc holds total_cost, total_hours,
\* breakdown and the exception that left the loop, if any.
RECURSIVE ProjectLoop(_, _, _, _)
ProjectLoop(tasks, i, acc, file) ==
    IF i > Len(tasks) THEN acc
    ELSE LET role == TaskRole(tasks[i]) IN
         IF role.raised # "" THEN [acc EXCEPT !.raised = role.raised]
         ELSE LET hours == tasks[i].hours
                  cost_info == calculate_task_cost(role.value, hours, file)
              IN  IF role.value # <<>> /\ hours > 0 /\ "error" \notin DOMAIN cost_info
                  THEN ProjectLoop(tasks, i + 1,
                           [acc EXCEPT !.total_cost = @ + cost_info.total_cost,
                                       !.total_hours = @ + hours,
                                       !.breakdown = Append(@, cost_info)], file)
                  ELSE ProjectLoop(tasks, i + 1, acc, file)

\* The digits of n with a comma before each group of three (format spec ",").
RECURSIVE GroupThousands(_)
GroupThousands(n) ==
    IF n < 1000 THEN NatStr(n)
    ELSE LET low == n % 1000
             pad == IF low < 10 THEN <<"0","0">> ELSE IF low < 100 THEN <<"0">> ELSE <<>>
         IN  GroupThousands(n \div 1000) \o <<",">> \o pad \o NatStr(low)

\* f"${total_cost:,.2f}" for a whole number
FormatCost(n) ==
    <<"$">> \o (IF n < 0 THEN <<"-">> \o GroupThousands(-n) ELSE GroupThousands(n))
            \o <<".","0","0">>

\* f"{total_hours:.1f} hours" for a whole number
FormatHours(n) == IntStr(n) \o <<".","0">> \o <<" ","h","o","u","r","s">>

calculate_project_cost(tasks, file) ==
    LET r == ProjectLoop(tasks, 1,
                 [total_cost |-> 0, total_hours |-> 0, breakdown |-> <<>>, raised |-> ""],
                 file)
    IN  IF r.raised # "" THEN [raised |-> r.raised]
        ELSE [raised |-> "",
              value |-> [total_cost |-> r.total_cost,
                         total_hours |-> r.total_hours,
                         breakdown |-> r.breakdown,
                         summary |-> [total_cost_formatted |-> FormatCost(r.total_cost),
                                      total_hours_formatted |-> FormatHours(r.total_hours)]]]

(***************************************************************************)
(* tools/document_extractor.py: extract_questioner_content                 *)
(*                                                                         *)
(* A paragraph is [text, style, runs]: paragraph.text, paragraph.style.name *)
(* and the bold attribute (True, False or None) of each run.               *)
(***************************************************************************)
HeadingPrefix == <<"H","e","a","d","i","n","g">>

\* Line 37: a heading style, or a first run that is bold.
IsMarker(p) ==
    \/ StartsWith(p.style, HeadingPrefix)
    \/ (p.runs # <<>> /\ p.runs[1] = "True")

\* Lines 29-53, from paragraph i on.  current_section is <<>> for None: the code
\* tests its truth value, and a title is never empty.
RECURSIVE ScanParagraphs(_, _, _)
ScanParagraphs(paras, i, st) ==
    IF i > Len(paras) THEN st
    ELSE LET text == Strip(paras[i].text) IN
         IF text = <<>> THEN ScanParagraphs(paras, i + 1, st)
         ELSE LET read == [st EXCEPT !.raw_text = @ \o text \o <<"\n">>] IN
              IF IsMarker(paras[i])
              THEN ScanParagraphs(paras, i + 1,
                       [read EXCEPT
                           !.sections = IF st.current_section # <<>>
                                        THEN Append(@, [title |-> st.current_section,
                                                        questions |-> st.current_questions])
                                        ELSE @,
                           !.current_section = text,
                           !.current_questions = <<>>])
              ELSE IF st.current_section # <<>>
                   THEN ScanParagraphs(paras, i + 1,
                            [read EXCEPT !.current_questions = Append(@, text)])
                   ELSE ScanParagraphs(paras, i + 1,
                            [read EXCEPT !.metadata =
                                Put(@, "preamble",
                                    (IF "preamble" \in DOMAIN @ THEN @["preamble"] ELSE <<>>)
                                        \o text \o <<"\n">>)])

DocumentNotFound ==
    <<"Q","u","e","s","t","i","o","n","e","r"," ","d","o","c","u","m","e","n","t"," ",
      "n","o","t"," ","f","o","u","n","d">>

ErrorExtracting ==
    <<"E","r","r","o","r"," ","e","x","t","r","a","c","t","i","n","g"," ",
      "c","o","n","t","e","n","t",":"," ">>

FlushLastDropped(st) == st.sections

\* Lines 55-60: the section still open at the end of the document.
FlushLast(st) ==
    IF st.current_section # <<>>
    THEN Append(st.sections, [title |-> st.current_section, questions |-> st.current_questions])
    ELSE st.sections

extract_questioner_content(d) ==
    IF ~d.exists THEN [error |-> DocumentNotFound]
    ELSE IF ~d.readable THEN [error |-> ErrorExtracting \o d.failure]
    ELSE LET st == ScanParagraphs(d.paragraphs, 1,
                       [sections |-> <<>>, raw_text |-> <<>>, metadata |-> EmptyDict,
                        current_section |-> <<>>, current_questions |-> <<>>])
         IN  [sections |-> FlushLast(st), raw_text |-> st.raw_text, metadata |-> st.metadata]

(***************************************************************************)
(* tools/document_extractor.py: extract_project_requirements               *)
(***************************************************************************)
OverviewKeywords ==
    << <<"o","v","e","r","v","i","e","w">>,
       <<"d","e","s","c","r","i","p","t","i","o","n">>,
       <<"s","u","m","m","a","r","y">> >>

TechnicalKeywords ==
    << <<"t","e","c","h","n","i","c","a","l">>,
       <<"t","e","c","h","n","o","l","o","g","y">>,
       <<"a","r","c","h","i","t","e","c","t","u","r","e">>,
       <<"s","y","s","t","e","m">> >>

FinancialKeywords ==
    << <<"f","i","n","a","n","c","i","a","l">>,
       <<"b","u","d","g","e","t">>,
       <<"c","o","s","t">>,
       <<"p","r","i","c","i","n","g">> >>

TimelineKeywords ==
    << <<"t","i","m","e","l","i","n","e">>,
       <<"s","c","h","e","d","u","l","e">>,
       <<"d","e","a","d","l","i","n","e">>,
       <<"m","i","l","e","s","t","o","n","e">> >>

ResourceKeywords ==
    << <<"r","e","s","o","u","r","c","e">>,
       <<"t","e","a","m">>,
       <<"s","t","a","f","f">>,
       <<"p","e","r","s","o","n","n","e","l">> >>

\* any(keyword in title_lower for keyword in keywords)
AnyKeyword(title_lower, keywords) ==
    \E k \in 1..Len(keywords) : Contains(title_lower, keywords[k])

BucketFinancialFirst(title_lower) ==
    IF AnyKeyword(title_lower, OverviewKeywords) THEN "project_overview"
    ELSE IF AnyKeyword(title_lower, FinancialKeywords) THEN "financial_requirements"
    ELSE IF AnyKeyword(title_lower, TechnicalKeywords) THEN "technical_requirements"
    ELSE IF AnyKeyword(title_lower, TimelineKeywords) THEN "timeline_requirements"
    ELSE IF AnyKeyword(title_lower, ResourceKeywords) THEN "resource_requirements"
    ELSE ""

\* The if/elif chain of lines 111-120: the key of requirements the section goes to,
\* "" when no branch is taken.
Bucket(title_lower) ==
    IF AnyKeyword(title_lower, OverviewKeywords) THEN "project_overview"
    ELSE IF AnyKeyword(title_lower, TechnicalKeywords) THEN "technical_requirements"
    ELSE IF AnyKeyword(title_lower, FinancialKeywords) THEN "financial_requirements"
    ELSE IF AnyKeyword(title_lower, TimelineKeywords) THEN "timeline_requirements"
    ELSE IF AnyKeyword(title_lower, ResourceKeywords) THEN "resource_requirements"
    ELSE ""

\* Lines 108-120, from section i on.
RECURSIVE Categorize(_, _, _)
Categorize(sections, i, req) ==
    IF i > Len(sections) THEN req
    ELSE LET b == Bucket(Lower(sections[i].title)) IN
         IF b = "" THEN Categorize(sections, i + 1, req)
         ELSE IF b = "project_overview"
         THEN Categorize(sections, i + 1,
                  [req EXCEPT ![b] = Join(<<"\n">>, sections[i].questions)])
         ELSE Categorize(sections, i + 1,
                  [req EXCEPT ![b] = @ \o sections[i].questions])

extract_project_requirements(d) ==
    LET content == extract_questioner_content(d) IN
    IF "error" \in DOMAIN content THEN content
    ELSE Categorize(content.sections, 1,
             [project_overview |-> <<>>, technical_requirements |-> <<>>,
              financial_requirements |-> <<>>, timeline_requirements |-> <<>>,
              resource_requirements |-> <<>>])

(***************************************************************************)
(* agents/description_agent.py: _parse_model_response                      *)
(***************************************************************************)
FinancialMarker ==
    <<"F","I","N","A","N","C","I","A","L"," ","A","N","A","L","Y","S","I","S",":">>

TechnicalMarker ==
    <<"T","E","C","H","N","I","C","A","L"," ","A","N","A","L","Y","S","I","S",":">>

\* Lines 253-265.  Without the separator the reply is returned as it is (line 259).
parse_model_response(response) ==
    LET parts == SplitOn(response, FinancialMarker) IN
    IF Len(parts) >= 2
    THEN [technical |-> Strip(Replace(parts[1], TechnicalMarker, <<>>)),
          financial |-> Strip(parts[2])]
    ELSE [technical |-> response, financial |-> <<>>]

(***************************************************************************)
(* utils/config.py: get_report_path, and the report assembler              *)
(* (tools/report_generator.py, whose source is not part of the tree).      *)
(***************************************************************************)
ReportPathOfTypeOnly(model_name, report_type) ==
    <<"data", "reports", <<report_type, "_report.docx">>>>

\* REPORTS_DIR / model_name / f"{report_type}_report.docx", as path components.
get_report_path(model_name, report_type) ==
    <<"data", "reports", model_name, <<report_type, "_report.docx">>>>

\* create_technical_report / create_financial_report: the analysis text written
\* to the report path of (model_name, report_type), replacing what was there.
create_report(fs, model_name, report_type, analysis_text) ==
    Put(fs, get_report_path(model_name, report_type), analysis_text)

(***************************************************************************)
(* agents/description_agent.py: start_conversation                         *)
(***************************************************************************)
\* Lines 55-68: ProjectData() as __post_init__ leaves it.
ProjectData ==
    [project_overview |-> <<>>, technical_requirements |-> <<>>,
     financial_requirements |-> <<>>, user_responses |-> EmptyDict]

\* Lines 74-91: the object as __init__ leaves it.  session tells whether
\* start_conversation was called on the object: "no_session" until the first call,
\* "collecting" from then on.
DescriptionAgent == [project_data |-> ProjectData, session |-> "no_session"]

\* Line 160: start_conversation is entered.  No line of it assigns to project_data.
Started(a) == [a EXCEPT !.session = "collecting"]

AgentRecreated(a) == DescriptionAgent

\* main_app.py 31-33: the reset assigns to st.session_state.messages only, and the
\* rerun finds "agent" in the session state (line 20): the object is kept.
AgentAfterReset(a) == a

IdleOrch ==
    [pc |-> "idle", idx |-> 0, context |-> <<>>, results |-> EmptyDict,
     user_message |-> <<>>]

Pending == [kind |-> "pending"]

NumberedTitlesFromZero(sections) ==
    Join(<<"\n">>, [i \in 1..Len(sections) |->
                       IntStr(i - 1) \o <<".", " ">> \o sections[i].title])

\* Line 171: chr(10).join(f"{i+1}. {section['title']}" for i, section in enumerate(...));
\* i of the model is i + 1 of the code.
NumberedTitles(sections) ==
    Join(<<"\n">>, [i \in 1..Len(sections) |->
                       IntStr(i) \o <<".", " ">> \o sections[i].title])

\* Lines 169-176
ConversationContext(sections, user_message) ==
    <<"\nQuestioner Document Sections:\n">>
    \o NumberedTitles(sections)
    \o <<"\n\nUser Message: ">>
    \o user_message
    \o <<"\n\nPlease start asking questions from the questioner document systematically, one section at a time.\n        ">>

ErrorPrefix == <<"E","r","r","o","r",":"," ">>

(***************************************************************************)
(* agents/description_agent.py: generate_reports                           *)
(***************************************************************************)
\* Lines 196-200: the models dict, in insertion order ("llama" is commented out).
Models == <<"openai", "claude">>

AgentName == [openai |-> "openai_agent", claude |-> "claude_agent", llama |-> "llama_agent"]

\* PROMPT, lines 32-52.
Prompt == <<"\nYou have to generate technical and financial reports based on the given context. ...\n">>

\* Lines 186-188
RECURSIVE Transcript(_)
Transcript(msgs) ==
    IF msgs = <<>> THEN <<>>
    ELSE <<"<", Head(msgs).role, " said> : \n">> \o Head(msgs).content \o <<"\n\n">>
         \o Transcript(Tail(msgs))

\* Lines 228-231: the delegation of _generate_model_reports, up to its await.
Delegation(model_name, context) ==
    [agent |-> AgentName[model_name], content |-> context \o Prompt, outcome |-> Pending]

ModelReportsFinancialFirst(model_name, text, fails, fs) ==
    LET analysis == parse_model_response(text)
        fs1 == create_report(fs, model_name, "financial", analysis.financial)
        fs2 == create_report(fs1, model_name, "technical", analysis.technical)
        w1 == [path |-> get_report_path(model_name, "financial"), text |-> analysis.financial]
        w2 == [path |-> get_report_path(model_name, "technical"), text |-> analysis.technical]
    IN  IF fails = "financial"
        THEN [raised |-> TRUE, files |-> fs, writes |-> <<>>]
        ELSE IF fails = "technical"
        THEN [raised |-> TRUE, files |-> fs1, writes |-> <<w1>>]
        ELSE [raised |-> FALSE, files |-> fs2, writes |-> <<w1, w2>>,
              value |-> [technical_report |-> get_report_path(model_name, "technical"),
                         financial_report |-> get_report_path(model_name, "financial"),
                         analysis |-> analysis]]

\* Lines 234-249, after the agent replied with text.  fails names the report write
\* that raises ("" when none does); a write that raises leaves the later one undone.
model_reports(model_name, text, fails, fs) ==
    LET analysis == parse_model_response(text)
        fs1 == create_report(fs, model_name, "technical", analysis.technical)
        fs2 == create_report(fs1, model_name, "financial", analysis.financial)
        w1 == [path |-> get_report_path(model_name, "technical"), text |-> analysis.technical]
        w2 == [path |-> get_report_path(model_name, "financial"), text |-> analysis.financial]
    IN  IF fails = "technical"
        THEN [raised |-> TRUE, files |-> fs, writes |-> <<>>]
        ELSE IF fails = "financial"
        THEN [raised |-> TRUE, files |-> fs1, writes |-> <<w1>>]
        ELSE [raised |-> FALSE, files |-> fs2, writes |-> <<w1, w2>>,
              value |-> [technical_report |-> get_report_path(model_name, "technical"),
                         financial_report |-> get_report_path(model_name, "financial"),
                         analysis |-> analysis]]

CatchesNothing(error) == FALSE

\* Line 206, `except Exception as e`: what a delegate or a report write raises is
\* an Exception, and is caught.
Catches(error) == TRUE

(***************************************************************************)
(* The inputs of the cost calculator.                                      *)
(***************************************************************************)
MaxRateLines == 3

MaxTasks == 2

SeqsUpTo(S, n) == UNION {[1..k -> S] : k \in 0..n}

Dev == <<"D","e","v">>

BackendEngineer == <<"B","a","c","k","e","n","d"," ","E","n","g","i","n","e","e","r">>

Bogus == <<"B","o","g","u","s">>

\* Lines of a pays.txt: rate lines, a repeated role, a line whose last token is no
\* number, a line of one token, a blank line, a padded line with a role of two words
\* and a role of the default table at another rate.
RateLines ==
    { <<"D","e","v"," ","7">>,
      <<"Q","A"," ","5">>,
      <<"D","e","v"," ","9">>,
      <<"D","e","v"," ","x","7">>,
      <<"S","o","l","o">>,
      <<" "," ">>,
      <<" ","S","r"," ","D","e","v","\t","1","2"," ">>,
      <<"B","a","c","k","e","n","d"," ","E","n","g","i","n","e","e","r"," ","9">> }

AbsentFile == [exists |-> FALSE, readable |-> FALSE, lines |-> <<>>]

UnreadableFile == [exists |-> TRUE, readable |-> FALSE, lines |-> <<>>]

PayFiles ==
    {AbsentFile, UnreadableFile}
    \cup {[exists |-> TRUE, readable |-> TRUE, lines |-> l] : l \in SeqsUpTo(RateLines, MaxRateLines)}

TaskRoles ==
    { Dev, <<"d","e","v">>, <<"S","r"," ","D","e","v">>, BackendEngineer, Bogus }

TaskHours == {-2, 0, 5, 10}

\* The rate tables the project cost is computed under: the default one and one read.
CostFiles ==
    { AbsentFile,
      [exists |-> TRUE, readable |-> TRUE,
       lines |-> << <<"D","e","v"," ","7">>,
       <<"B","a","c","k","e","n","d"," ","E","n","g","i","n","e","e","r"," ","9">> >>] }

ProjectTasks == {[role |-> r, hours |-> h] : r \in {Dev, BackendEngineer, Bogus}, h \in TaskHours}

NoCall == [op |-> "none"]

(***************************************************************************)
(* The document, the reply and their results when no call was made.        *)
(***************************************************************************)
NoDoc == [exists |-> FALSE, readable |-> FALSE, failure |-> <<>>, paragraphs |-> <<>>]

DocIdle == doc = NoDoc /\ docRet = NoCall

ParseIdle == reply = <<>> /\ parseRet = NoCall

NoTask == [description |-> <<>>, role |-> <<>>]

CostIdle == payFile = AbsentFile /\ costRet = NoCall /\ estimated = NoTask

AgentIdle ==
    /\ messages = <<>>
    /\ orch = IdleOrch
    /\ calls = <<>>
    /\ writes = <<>>
    /\ files = EmptyDict
    /\ agentRet = NoCall
    /\ agent = DescriptionAgent

NoFileCall ==
    [op |-> "none", filepath |-> <<>>, content |-> <<>>, title |-> <<>>,
     raised |-> FALSE, value |-> <<>>]

FileIdle == fileRet = NoFileCall


(***************************************************************************)
(* The rate table loader and the line item cost, over every pays.txt.      *)
(***************************************************************************)
InitRates ==
    /\ payFile \in PayFiles
    /\ costRet = NoCall
    /\ estimated = NoTask
    /\ DocIdle
    /\ ParseIdle
    /\ AgentIdle
    /\ FileIdle

LoadHourlyRates ==
    /\ costRet' = [op |-> "load_hourly_rates", raised |-> "",
                   value |-> load_hourly_rates(payFile)]
    /\ UNCHANGED <<payFile, estimated, docVars, parseVars, agentVars, fileVars>>

CalculateTaskCost ==
    \E role \in TaskRoles, hours \in TaskHours :
        /\ costRet' = [op |-> "calculate_task_cost", role |-> role, hours |-> hours,
                       raised |-> "", value |-> calculate_task_cost(role, hours, payFile)]
        /\ UNCHANGED <<payFile, estimated, docVars, parseVars, agentVars, fileVars>>

NextRates == LoadHourlyRates \/ CalculateTaskCost

SpecRates == InitRates /\ [][NextRates]_vars

(***************************************************************************)
(* The project cost, over every task list.                                 *)
(***************************************************************************)
InitCost ==
    /\ payFile \in CostFiles
    /\ costRet = NoCall
    /\ estimated = NoTask
    /\ DocIdle
    /\ ParseIdle
    /\ AgentIdle
    /\ FileIdle

CalculateProjectCost ==
    \E tasks \in SeqsUpTo(ProjectTasks, MaxTasks) :
        /\ costRet' = [op |-> "calculate_project_cost", tasks |-> tasks]
                      @@ calculate_project_cost(tasks, payFile)
        /\ UNCHANGED <<payFile, estimated, docVars, parseVars, agentVars, fileVars>>

NextCost == CalculateProjectCost

SpecCost == InitCost /\ [][NextCost]_vars

(***************************************************************************)
(* Claims about the rate table loader and the cost estimator.              *)
(***************************************************************************)
\* What one line of pays.txt holds, read on its own.
LineParses(line) ==
    LET parts == SplitWs(Strip(line)) IN Len(parts) >= 2 /\ FloatParses(Last(parts))

LineRole(line) == Join(<<" ">>, Front(SplitWs(Strip(line))))

LineRate(line) == FloatValue(Last(SplitWs(Strip(line))))

\* The entries of all parsable lines, a later line of a role replacing an earlier one.
RECURSIVE EntriesOfLines(_)
EntriesOfLines(lines) ==
    IF lines = <<>> THEN EmptyDict
    ELSE LET before == EntriesOfLines(Front(lines)) IN
         IF LineParses(Last(lines))
         THEN Put(before, LineRole(Last(lines)), LineRate(Last(lines)))
         ELSE before

FileRead == payFile.exists /\ payFile.readable

SomeLineParses == \E i \in 1..Len(payFile.lines) : LineParses(payFile.lines[i])

\* C2: for a rate file with at least one parsable line, load_hourly_rates returns
\* exactly the entries of all parsable lines; a line that fails to parse is skipped
\* on its own and drops no other line.
C2_EveryParsableLineLoaded ==
    (costRet.op = "load_hourly_rates" /\ FileRead /\ SomeLineParses)
        => costRet.value = EntriesOfLines(payFile.lines)

\* C3: load_hourly_rates never raises; it never returns an empty mapping; with the
\* file absent, unreadable, empty or holding no parsable line it returns exactly the
\* default table; and what it returns is the default table or holds entries of the
\* file's lines only.
C3_DefaultsWhenNothingRead ==
    costRet.op = "load_hourly_rates" =>
        /\ costRet.raised = ""
        /\ DOMAIN costRet.value # {}
        /\ (~FileRead \/ ~SomeLineParses) => costRet.value = ENGINEERING_ROLES
        /\ \/ costRet.value = ENGINEERING_ROLES
           \/ \A r \in DOMAIN costRet.value :
                  \E i \in 1..Len(payFile.lines) :
                      /\ LineParses(payFile.lines[i])
                      /\ LineRole(payFile.lines[i]) = r
                      /\ LineRate(payFile.lines[i]) = costRet.value[r]

\* C3's case: a readable file of two or more lines, none parsable, gave the defaults.
C3_Witness ==
    /\ costRet.op = "load_hourly_rates"
    /\ FileRead
    /\ Len(payFile.lines) >= 2
    /\ ~SomeLineParses
    /\ costRet.value = ENGINEERING_ROLES

\* C5: calculate_task_cost never raises; for a role that is a key of the current
\* rate table it returns rate = table[role] and total_cost = rate * hours with no
\* error field, for any other role an item with an error field, rate 0, total_cost 0
\* and the role and hours as given; the lookup is case-sensitive.
C5_TaskCostExactOrError ==
    costRet.op = "calculate_task_cost" =>
        LET rates == load_hourly_rates(payFile)
            item == costRet.value
        IN  /\ costRet.raised = ""
            /\ item.role = costRet.role
            /\ item.hours = costRet.hours
            /\ IF costRet.role \in DOMAIN rates
               THEN /\ "error" \notin DOMAIN item
                    /\ item.rate = rates[costRet.role]
                    /\ item.total_cost = rates[costRet.role] * costRet.hours
               ELSE /\ "error" \in DOMAIN item
                    /\ item.rate = 0
                    /\ item.total_cost = 0

\* C5's case: "dev" is priced against a table holding "Dev", with negative hours.
C5_Witness ==
    /\ costRet.op = "calculate_task_cost"
    /\ costRet.role = <<"d","e","v">>
    /\ costRet.hours < 0
    /\ Dev \in DOMAIN load_hourly_rates(payFile)
    /\ "error" \in DOMAIN costRet.value
    /\ costRet.value.total_cost = 0

RECURSIVE SumCost(_, _)
SumCost(tasks, rates) ==
    IF tasks = <<>> THEN 0
    ELSE rates[Head(tasks).role] * Head(tasks).hours + SumCost(Tail(tasks), rates)

RECURSIVE SumHours(_)
SumHours(tasks) == IF tasks = <<>> THEN 0 ELSE Head(tasks).hours + SumHours(Tail(tasks))

\* The tasks of a list that are priced: a role of the table and positive hours.
PricedTasks(tasks, rates) ==
    LET Priced(t) == t.role \in DOMAIN rates /\ t.hours > 0 IN SelectSeq(tasks, Priced)

\* C4: calculate_project_cost returns, without raising, total_cost = the sum of
\* rate * hours and total_hours = the sum of hours over the tasks with a role of the
\* table and positive hours, and breakdown = their line items in task order.
C4_ProjectTotalsOverPricedTasks ==
    costRet.op = "calculate_project_cost" =>
        LET rates == load_hourly_rates(payFile)
            priced == PricedTasks(costRet.tasks, rates)
        IN  /\ costRet.raised = ""
            /\ costRet.value.total_cost = SumCost(priced, rates)
            /\ costRet.value.total_hours = SumHours(priced)
            /\ costRet.value.breakdown =
                   [i \in 1..Len(priced) |->
                       [role |-> priced[i].role, hours |-> priced[i].hours,
                        rate |-> rates[priced[i].role],
                        total_cost |-> rates[priced[i].role] * priced[i].hours]]

(***************************************************************************)
(* The document sectionizer, over every document.                          *)
(***************************************************************************)
MaxParas == 5

MaxReqParas == 4

NormalStyle == <<"N","o","r","m","a","l">>

Heading1 == <<"H","e","a","d","i","n","g"," ","1">>

Heading2 == <<"H","e","a","d","i","n","g"," ","2">>

Para(text, style, runs) == [text |-> text, style |-> style, runs |-> runs]

\* Paragraphs of a questioner: a heading, a padded paragraph whose first run is
\* bold, three plain questions (one with a bold second run, one in another style
\* with a first run that is explicitly not bold), a blank paragraph and a blank
\* paragraph of heading style.
Paragraphs ==
    { Para(<<"H","1">>, Heading1, <<"None">>),
      Para(<<" ","H","2"," ">>, NormalStyle, <<"True">>),
      Para(<<"q","1">>, NormalStyle, <<"None">>),
      Para(<<"q","2","\t">>, NormalStyle, <<"None", "True">>),
      Para(<<"q","3">>, <<"L","i","s","t"," ","P","a","r","a","g","r","a","p","h">>, <<"False">>),
      Para(<<>>, NormalStyle, <<>>),
      Para(<<" "," ">>, Heading2, <<"None">>) }

CorruptDoc ==
    [exists |-> TRUE, readable |-> FALSE,
     failure |-> <<"F","i","l","e"," ","i","s"," ","n","o","t"," ","a"," ","z","i","p"," ","f","i","l","e">>,
     paragraphs |-> <<>>]

DocOf(paras) == [exists |-> TRUE, readable |-> TRUE, failure |-> <<>>, paragraphs |-> paras]

InitDoc ==
    /\ doc \in {NoDoc, CorruptDoc} \cup {DocOf(ps) : ps \in SeqsUpTo(Paragraphs, MaxParas)}
    /\ docRet = NoCall
    /\ CostIdle
    /\ ParseIdle
    /\ AgentIdle
    /\ FileIdle

ExtractQuestionerContent ==
    /\ docRet' = [op |-> "extract_questioner_content", value |-> extract_questioner_content(doc)]
    /\ UNCHANGED <<doc, costVars, parseVars, agentVars, fileVars>>

NextDoc == ExtractQuestionerContent

SpecDoc == InitDoc /\ [][NextDoc]_vars

(***************************************************************************)
(* The requirement classifier, over documents of titled sections.          *)
(***************************************************************************)
HeadingPara(title) == Para(title, Heading1, <<"None">>)

\* Titles matching the overview set, the technical and the financial set, the
\* financial and the overview set, the resource and the timeline set, the resource
\* set alone and no set; and two questions.
ReqParagraphs ==
    { HeadingPara(<<"P","r","o","j","e","c","t"," ","O","v","e","r","v","i","e","w">>),
      HeadingPara(<<"T","e","c","h","n","i","c","a","l"," ","B","u","d","g","e","t">>),
      HeadingPara(<<"C","O","S","T"," ","S","u","m","m","a","r","y">>),
      HeadingPara(<<"T","e","a","m"," ","S","c","h","e","d","u","l","e">>),
      HeadingPara(<<"S","t","a","f","f","i","n","g">>),
      HeadingPara(<<"M","i","s","c">>),
      Para(<<"q","1">>, NormalStyle, <<"None">>),
      Para(<<"q","2">>, NormalStyle, <<"None">>) }

InitReq ==
    /\ doc \in {NoDoc} \cup {DocOf(ps) : ps \in SeqsUpTo(ReqParagraphs, MaxReqParas)}
    /\ docRet = NoCall
    /\ CostIdle
    /\ ParseIdle
    /\ AgentIdle
    /\ FileIdle

ExtractProjectRequirements ==
    /\ docRet' = [op |-> "extract_project_requirements",
                  value |-> extract_project_requirements(doc)]
    /\ UNCHANGED <<doc, costVars, parseVars, agentVars, fileVars>>

NextReq == ExtractProjectRequirements

SpecReq == InitReq /\ [][NextReq]_vars

(***************************************************************************)
(* Claims about the document sectionizer and the requirement classifier.   *)
(***************************************************************************)
DocRead == doc.exists /\ doc.readable

\* The paragraphs of the document that are not blank, in document order.
NonBlank ==
    LET Inked(p) == \E i \in 1..Len(p.text) : ~IsSpace(p.text[i]) IN
    SelectSeq(doc.paragraphs, Inked)

\* A marker paragraph: heading style, or a bold first run.
MarkerParagraph(p) ==
    \/ (Len(p.style) >= 7 /\ SubSeq(p.style, 1, 7) = <<"H","e","a","d","i","n","g">>)
    \/ (Len(p.runs) >= 1 /\ Head(p.runs) = "True")

\* Where the first marker stands among the paragraphs nb (Len(nb) + 1 when none).
FirstMarker(nb) ==
    IF \E i \in 1..Len(nb) : MarkerParagraph(nb[i])
    THEN CHOOSE i \in 1..Len(nb) :
             MarkerParagraph(nb[i]) /\ \A j \in 1..(i - 1) : ~MarkerParagraph(nb[j])
    ELSE Len(nb) + 1

\* The sections laid out again as paragraphs: each title, then its questions.
RECURSIVE SectionItems(_)
SectionItems(sections) ==
    IF sections = <<>> THEN <<>>
    ELSE <<[text |-> Head(sections).title, marker |-> TRUE]>>
         \o [i \in 1..Len(Head(sections).questions) |->
                [text |-> Head(sections).questions[i], marker |-> FALSE]]
         \o SectionItems(Tail(sections))

RECURSIVE PreambleOf(_)
PreambleOf(ps) ==
    IF ps = <<>> THEN <<>> ELSE Strip(Head(ps).text) \o <<"\n">> \o PreambleOf(Tail(ps))

\* C6: every non-blank paragraph is placed exactly once, in document order: the
\* non-markers before the first marker in the preamble, and from the first marker on
\* every marker as the title of a new section and every non-marker as the next
\* question of the section opened last; there are as many sections as markers.
C6_EveryParagraphPlacedOnce ==
    (docRet.op = "extract_questioner_content" /\ DocRead) =>
        LET nb == NonBlank
            k == FirstMarker(nb)
            out == docRet.value
        IN  /\ "error" \notin DOMAIN out
            /\ Len(out.sections) = Cardinality({i \in 1..Len(nb) : MarkerParagraph(nb[i])})
            /\ SectionItems(out.sections) =
                   [i \in 1..(Len(nb) - k + 1) |->
                       [text |-> Strip(nb[i + k - 1].text),
                        marker |-> MarkerParagraph(nb[i + k - 1])]]
            /\ IF k = 1 THEN DOMAIN out.metadata = {}
               ELSE out.metadata["preamble"] = PreambleOf(SubSeq(nb, 1, k - 1))

\* C6's case: H1, q1, H2, q2, q3 gives the sections {H1, [q1]} and {H2, [q2, q3]}
\* and no preamble.
C6_Witness ==
    /\ docRet.op = "extract_questioner_content"
    /\ doc.paragraphs = << Para(<<"H","1">>, Heading1, <<"None">>),
                           Para(<<"q","1">>, NormalStyle, <<"None">>),
                           Para(<<" ","H","2"," ">>, NormalStyle, <<"True">>),
                           Para(<<"q","2","\t">>, NormalStyle, <<"None", "True">>),
                           Para(<<"q","3">>,
                           <<"L","i","s","t"," ","P","a","r","a","g","r","a","p","h">>,
                           <<"False">>) >>
    /\ docRet.value.sections =
           << [title |-> <<"H","1">>, questions |-> << <<"q","1">> >>],
              [title |-> <<"H","2">>, questions |-> << <<"q","2">>, <<"q","3">> >>] >>
    /\ DOMAIN docRet.value.metadata = {}

KeywordSets ==
    <<OverviewKeywords, TechnicalKeywords, FinancialKeywords, TimelineKeywords, ResourceKeywords>>

ListBuckets ==
    <<"project_overview", "technical_requirements", "financial_requirements",
      "timeline_requirements", "resource_requirements">>

\* The place in the priority order of the first keyword set a title matches, 0 when
\* it matches none.
Priority(title) ==
    LET lowered == Lower(title)
        hits == {c \in 1..5 : \E k \in 1..Len(KeywordSets[c]) :
                                  Contains(lowered, KeywordSets[c][k])}
    IN  IF hits = {} THEN 0 ELSE CHOOSE c \in hits : \A d \in hits : c <= d

\* The questions of the first n sections that have priority c (pr[i] is the priority
\* of section i), in document order.
RECURSIVE QuestionsOf(_, _, _, _)
QuestionsOf(sections, pr, c, n) ==
    IF n = 0 THEN <<>>
    ELSE QuestionsOf(sections, pr, c, n - 1)
         \o (IF pr[n] = c THEN sections[n].questions ELSE <<>>)

\* The overview text: the joined questions of the last overview section, if any.
OverviewOf(sections, pr) ==
    LET idx == {i \in 1..Len(sections) : pr[i] = 1} IN
    IF idx = {} THEN <<>>
    ELSE Join(<<"\n">>, sections[CHOOSE i \in idx : \A j \in idx : j <= i].questions)

\* C10: each section goes to the first bucket, in the order overview > technical >
\* financial > timeline > resource, whose keyword set matches its lower-cased title:
\* a list bucket holds the questions of its sections in document order, the overview
\* the joined questions of the last overview section, and a section matching no set
\* is in no bucket.
C10_FirstMatchingBucket ==
    (docRet.op = "extract_project_requirements" /\ DocRead) =>
        LET sections == extract_questioner_content(doc).sections
            pr == [i \in 1..Len(sections) |-> Priority(sections[i].title)]
            req == docRet.value
        IN  /\ DOMAIN req = {ListBuckets[c] : c \in 1..5}
            /\ req.project_overview = OverviewOf(sections, pr)
            /\ \A c \in 2..5 : req[ListBuckets[c]] = QuestionsOf(sections, pr, c, Len(sections))

\* C10's case: "Technical Budget" goes to technical only, and "COST Summary" to the
\* overview, not to financial.
C10_Witness ==
    /\ docRet.op = "extract_project_requirements"
    /\ doc.paragraphs =
           << HeadingPara(<<"T","e","c","h","n","i","c","a","l"," ","B","u","d","g","e","t">>),
              Para(<<"q","1">>, NormalStyle, <<"None">>),
              HeadingPara(<<"C","O","S","T"," ","S","u","m","m","a","r","y">>),
              Para(<<"q","2">>, NormalStyle, <<"None">>) >>
    /\ docRet.value.technical_requirements = << <<"q","1">> >>
    /\ docRet.value.financial_requirements = <<>>
    /\ docRet.value.project_overview = <<"q","2">>

(***************************************************************************)
(* The reply splitter, over every reply.                                   *)
(***************************************************************************)
MaxPieces == 3

\* What a reply is made of: text, blanks, line ends and the two markers.
ReplyPieces == { <<"a">>, <<" ">>, <<"\n">>, FinancialMarker, TechnicalMarker }

RECURSIVE Concat(_)
Concat(ss) == IF ss = <<>> THEN <<>> ELSE Head(ss) \o Concat(Tail(ss))

Replies == {Concat(ps) : ps \in SeqsUpTo(ReplyPieces, MaxPieces)}

InitParse ==
    /\ reply \in Replies
    /\ parseRet = NoCall
    /\ CostIdle
    /\ DocIdle
    /\ AgentIdle
    /\ FileIdle

ParseModelResponse ==
    /\ parseRet' = [op |-> "_parse_model_response", value |-> parse_model_response(reply)]
    /\ UNCHANGED <<reply, costVars, docVars, agentVars, fileVars>>

NextParse == ParseModelResponse

SpecParse == InitParse /\ [][NextParse]_vars

\* C7: for a reply without the literal "FINANCIAL ANALYSIS:", technical is the full
\* reply with leading and trailing whitespace trimmed and financial is empty.
C7_NoMarkerGivesTrimmedReply ==
    (parseRet.op = "_parse_model_response" /\ ~Contains(reply, FinancialMarker)) =>
        /\ parseRet.value.technical = Strip(reply)
        /\ parseRet.value.financial = <<>>

(***************************************************************************)
(* The orchestrator behind the chat page (main_app.py): prompts, report    *)
(* generation and resets, with the agents answering or failing.            *)
(***************************************************************************)
MaxMessages == 4

Prompts == { <<"h","i">>, <<"a","p","p">> }

ChatReplies == { <<"o","k">> }

\* A reply without the separator and padded with whitespace, and one with both markers.
ModelReplyTexts ==
    { <<" ","a","\n">>,
      <<"T","E","C","H","N","I","C","A","L"," ","A","N","A","L","Y","S","I","S",":"," ","t"," ",
        "F","I","N","A","N","C","I","A","L"," ","A","N","A","L","Y","S","I","S",":"," ","f"," ">> }

\* str(e) of what a delegate raises, and of what a report write raises.
DelegateErrors == { <<"t","i","m","e","o","u","t">> }

WriteError == <<"d","i","s","k"," ","f","u","l","l">>

\* The questioner: absent, unreadable, and one with a preamble and two sections.
AgentDocs ==
    { NoDoc, CorruptDoc,
      DocOf(<< Para(<<"i","n","t","r","o">>, NormalStyle, <<"None">>),
               Para(<<"S","c","o","p","e">>, Heading1, <<"None">>),
               Para(<<"q","1">>, NormalStyle, <<"None">>),
               Para(<<"T","e","a","m">>, NormalStyle, <<"True">>) >>) }

InitAgent ==
    /\ doc \in AgentDocs
    /\ docRet = NoCall
    /\ CostIdle
    /\ ParseIdle
    /\ AgentIdle
    /\ FileIdle

\* main_app.py 44-57 with start_conversation (160-179) up to its await: the prompt
\* joins the history; an unreadable questioner is answered at once, or else the chat
\* agent is called.
SubmitPrompt ==
    \E prompt \in Prompts :
        LET content == extract_questioner_content(doc)
            withUser == Append(messages, [role |-> "user", content |-> prompt])
        IN  /\ orch.pc = "idle"
            /\ Len(messages) + 2 <= MaxMessages
            /\ writes' = <<>>
            /\ IF "error" \in DOMAIN content
               THEN /\ messages' = Append(withUser, [role |-> "assistant",
                                                     content |-> ErrorPrefix \o content.error])
                    /\ orch' = IdleOrch
                    /\ calls' = <<>>
                    /\ agentRet' = [op |-> "start_conversation", user_message |-> prompt,
                                    raised |-> FALSE, value |-> ErrorPrefix \o content.error]
               ELSE /\ messages' = withUser
                    /\ orch' = [IdleOrch EXCEPT
                                   !.pc = "conv_await",
                                   !.context = ConversationContext(content.sections, prompt),
                                   !.user_message = prompt]
                    /\ calls' = <<[agent |-> "chat_agent",
                                   content |-> ConversationContext(content.sections, prompt),
                                   outcome |-> Pending]>>
                    /\ agentRet' = [op |-> "none"]
            /\ agent' = Started(agent)
            /\ UNCHANGED <<files, costVars, docVars, parseVars, fileVars>>

\* description_agent.py 179-181 and main_app.py 56-57: the chat agent's reply is
\* returned and joins the history.
ChatAgentReplies ==
    \E text \in ChatReplies :
        /\ orch.pc = "conv_await"
        /\ calls' = [calls EXCEPT ![1].outcome = [kind |-> "reply", text |-> text]]
        /\ agentRet' = [op |-> "start_conversation", user_message |-> orch.user_message,
                        raised |-> FALSE, value |-> text]
        /\ messages' = Append(messages, [role |-> "assistant", content |-> text])
        /\ orch' = IdleOrch
        /\ UNCHANGED <<writes, files, agent, costVars, docVars, parseVars, fileVars>>

\* description_agent.py 179: the chat agent raises; nothing catches it, in
\* start_conversation or in main (55), and the script run ends.
ChatAgentRaises ==
    \E error \in DelegateErrors :
        /\ orch.pc = "conv_await"
        /\ calls' = [calls EXCEPT ![1].outcome = [kind |-> "raise", error |-> error]]
        /\ agentRet' = [op |-> "start_conversation", user_message |-> orch.user_message,
                        raised |-> TRUE, error |-> error]
        /\ orch' = IdleOrch
        /\ UNCHANGED <<messages, writes, files, agent, costVars, docVars, parseVars, fileVars>>

\* main_app.py 31-33
ResetConversation ==
    /\ orch.pc = "idle"
    /\ messages # <<>>
    /\ messages' = <<>>
    /\ agent' = AgentAfterReset(agent)
    /\ UNCHANGED <<orch, calls, writes, files, agentRet, costVars, docVars, parseVars, fileVars>>

\* main_app.py 62-64 with generate_reports (183-204) up to the first await.
ClickGenerate ==
    /\ orch.pc = "idle"
    /\ orch' = [IdleOrch EXCEPT !.pc = "gen_await", !.idx = 1,
                                !.context = Transcript(messages)]
    /\ calls' = <<Delegation(Models[1], Transcript(messages))>>
    /\ writes' = <<>>
    /\ agentRet' = [op |-> "none"]
    /\ UNCHANGED <<messages, files, agent, costVars, docVars, parseVars, fileVars>>

\* Lines 202-209 once the model at orch.idx is done with `entry` for results (or with
\* an exception that line 206 does not catch): the entry is stored, and the loop
\* goes on to the next model's delegation or returns.
ModelDone(outcome, raised, error, entry) ==
    LET model_name == Models[orch.idx]
        done == [calls EXCEPT ![Len(calls)].outcome = outcome]
        results == Put(orch.results, model_name, entry)
    IN  IF raised /\ ~Catches(error)
        THEN /\ calls' = done
             /\ orch' = IdleOrch
             /\ agentRet' = [op |-> "generate_reports", raised |-> TRUE, error |-> error]
        ELSE IF orch.idx < Len(Models)
        THEN /\ calls' = Append(done, Delegation(Models[orch.idx + 1], orch.context))
             /\ orch' = [orch EXCEPT !.idx = @ + 1, !.results = results]
             /\ agentRet' = agentRet
        ELSE /\ calls' = done
             /\ orch' = IdleOrch
             /\ agentRet' = [op |-> "generate_reports", raised |-> FALSE, value |-> results]

\* Lines 231-249 and 205: the agent replies; the reply is split and the two reports
\* are written, unless a write raises.
ModelReplies ==
    \E text \in ModelReplyTexts, fails \in {"", "technical", "financial"} :
        LET r == model_reports(Models[orch.idx], text, fails, files) IN
        /\ orch.pc = "gen_await"
        /\ files' = r.files
        /\ writes' = writes \o r.writes
        /\ ModelDone([kind |-> "reply", text |-> text, fails |-> fails],
                     r.raised, WriteError,
                     IF r.raised THEN [error |-> WriteError] ELSE r.value)
        /\ UNCHANGED <<messages, agent, costVars, docVars, parseVars, fileVars>>

\* Lines 231 and 206-207: the agent raises.
ModelRaises ==
    \E error \in DelegateErrors :
        /\ orch.pc = "gen_await"
        /\ ModelDone([kind |-> "raise", error |-> error], TRUE, error, [error |-> error])
        /\ UNCHANGED <<messages, writes, files, agent, costVars, docVars, parseVars, fileVars>>

NextAgent ==
    \/ SubmitPrompt
    \/ ChatAgentReplies
    \/ ChatAgentRaises
    \/ ResetConversation
    \/ ClickGenerate
    \/ ModelReplies
    \/ ModelRaises

SpecAgent == InitAgent /\ [][NextAgent]_vars

(***************************************************************************)
(* Claims about the orchestrator.                                          *)
(***************************************************************************)
\* The success payload of a model whose agent replied with text.
SuccessPayload(model_name, text) ==
    [technical_report |-> get_report_path(model_name, "technical"),
     financial_report |-> get_report_path(model_name, "financial"),
     analysis |-> parse_model_response(text)]

\* The message of the exception a model's delegation ended with: the agent's own,
\* or that of the report write that raised.
FailureOf(outcome) ==
    IF outcome.kind = "raise" THEN outcome.error ELSE WriteError

Failed(outcome) == outcome.kind = "raise" \/ (outcome.kind = "reply" /\ outcome.fails # "")

\* C1: whichever models fail (their delegate call or a report write raising),
\* generate_reports does not raise, every model of the fixed set was delegated to, in
\* order, and has exactly one entry in the result: {"error": message} if it failed,
\* its success payload if it did not.
C1_EveryModelGetsItsEntry ==
    agentRet.op = "generate_reports" =>
        /\ ~agentRet.raised
        /\ DOMAIN agentRet.value = {Models[i] : i \in 1..Len(Models)}
        /\ Len(calls) = Len(Models)
        /\ \A i \in 1..Len(Models) :
               /\ calls[i].agent = AgentName[Models[i]]
               /\ calls[i].outcome.kind \in {"reply", "raise"}
               /\ agentRet.value[Models[i]] =
                      IF Failed(calls[i].outcome)
                      THEN [error |-> FailureOf(calls[i].outcome)]
                      ELSE SuccessPayload(Models[i], calls[i].outcome.text)

\* C1's case: the first model's delegate call raised and the second model still has
\* its success payload.
C1_Witness ==
    /\ agentRet.op = "generate_reports"
    /\ calls[1].outcome.kind = "raise"
    /\ agentRet.value[Models[1]] = [error |-> <<"t","i","m","e","o","u","t">>]
    /\ calls[2].outcome.kind = "reply"
    /\ calls[2].outcome.fails = ""
    /\ "analysis" \in DOMAIN agentRet.value[Models[2]]

\* The lines "1. <title>", "2. <title>", ... of the first n sections.
RECURSIVE TitleLines(_, _)
TitleLines(sections, n) ==
    IF n = 0 THEN <<>>
    ELSE TitleLines(sections, n - 1)
         \o (IF n > 1 THEN <<"\n">> ELSE <<>>)
         \o NatStr(n) \o <<".", " ">> \o sections[n].title

\* C8: when the sectionizer returns an error, start_conversation returns "Error: "
\* followed by it and calls no agent; otherwise it calls the chat agent exactly once,
\* with the numbered section titles in document order followed by the user's
\* message, and returns the agent's reply unchanged.
C8_ErrorOrOneDelegation ==
    agentRet.op = "start_conversation" =>
        LET content == extract_questioner_content(doc) IN
        IF "error" \in DOMAIN content
        THEN /\ ~agentRet.raised
             /\ agentRet.value = <<"E","r","r","o","r",":"," ">> \o content.error
             /\ calls = <<>>
        ELSE /\ Len(calls) = 1
             /\ calls[1].agent = "chat_agent"
             /\ calls[1].content =
                    <<"\nQuestioner Document Sections:\n">>
                    \o TitleLines(content.sections, Len(content.sections))
                    \o <<"\n\nUser Message: ">>
                    \o agentRet.user_message
                    \o <<"\n\nPlease start asking questions from the questioner document systematically, one section at a time.\n        ">>
             /\ calls[1].outcome.kind = "reply" =>
                    (~agentRet.raised /\ agentRet.value = calls[1].outcome.text)

\* C8's case: with a questioner of two sections the chat agent was called and its
\* reply returned.
C8_Witness ==
    /\ agentRet.op = "start_conversation"
    /\ DocRead
    /\ Len(extract_questioner_content(doc).sections) = 2
    /\ Len(calls) = 1
    /\ calls[1].outcome.kind = "reply"
    /\ agentRet.value = <<"o","k">>

\* C9: after generate_reports returns, the result has one entry for each of the
\* three models openai, claude and llama.
C9_ThreeModelEntries ==
    (agentRet.op = "generate_reports" /\ ~agentRet.raised)
        => DOMAIN agentRet.value = {"openai", "claude", "llama"}

(***************************************************************************)
(* utils/file_utils.py.  A file on disk is [kind, old, paragraphs, text]:  *)
(* a .docx file has its paragraphs, [run, style] each, where run is what   *)
(* python-docx makes of the paragraph's text: its characters, with a break *)
(* for every line feed and every carriage return and a tab element for     *)
(* every tab; a JSON file has its text, a PDF file the paragraphs of its   *)
(* story.  old tells whether the file was last written more than           *)
(* max_age_days (7, the default of cleanup_old_files) ago.                 *)
(***************************************************************************)
\* config.py 18-34 and 37: the keys of MODELS and REPORT_TYPES.
MODELS == {"openai", "claude", "llama"}

REPORT_TYPES == <<"technical", "financial">>

\* config.py 13
REPORTS_DIR == <<"data", "reports">>

\* config.py 61-63: REPORTS_DIR / model_name / f"{report_type}_report.pdf"
get_pdf_path(model_name, report_type) ==
    <<"data", "reports", model_name, <<report_type, "_report.pdf">>>>

DefaultTitle == <<"R","e","p","o","r","t">>

DocxFile(paragraphs) ==
    [kind |-> "docx", old |-> FALSE, paragraphs |-> paragraphs, text |-> <<>>]

JsonFile(text) ==
    [kind |-> "json", old |-> FALSE, paragraphs |-> <<>>, text |-> text]

PdfFile(story) ==
    [kind |-> "pdf", old |-> FALSE, paragraphs |-> story, text |-> <<>>]

\* json.dump(data, f, indent=2, ensure_ascii=False) for a dict of integers, given as
\* the sequence of its items.
JsonDump(data) ==
    IF data = <<>> THEN <<"{", "}">>
    ELSE <<"{", "\n">>
         \o Join(<<",", "\n">>,
                 [i \in 1..Len(data) |->
                     <<" ", " ", "\"">> \o data[i].key \o <<"\"", ":", " ">>
                     \o IntStr(data[i].value)])
         \o <<"\n", "}">>

\* Lines 18-22
save_json(fs, data, filepath) == Put(fs, filepath, JsonFile(JsonDump(data)))

\* Lines 50 and 54, the text given to doc.add_heading and doc.add_paragraph: the
\* XML of the document takes no control character other than tab, line feed and
\* carriage return (of the characters written here, the form feed is refused), and
\* the call raises ValueError for a text that has one.
XmlCompatible(text) == \A i \in 1..Len(text) : text[i] # "\f"

\* Lines 50 and 54, the run add_heading and add_paragraph make of their text: a
\* line feed and a carriage return each become a break, a tab becomes a tab
\* element, every other character is kept.
RunContent(text) ==
    [i \in 1..Len(text) |->
        IF text[i] \in {"\n", "\r"} THEN "<w:br/>"
        ELSE IF text[i] = "\t" THEN "<w:tab/>"
        ELSE text[i]]

\* Lines 38-39, paragraph.text: the characters of the run, a line feed for every
\* break and a tab for every tab element.
ParagraphText(paragraph) ==
    [i \in 1..Len(paragraph.run) |->
        IF paragraph.run[i] = "<w:br/>" THEN "\n"
        ELSE IF paragraph.run[i] = "<w:tab/>" THEN "\t"
        ELSE paragraph.run[i]]

\* Lines 45-57: a new document with the title as its heading of level 0 and the
\* content as one paragraph, saved at filepath over whatever was there.  A text
\* that python-docx refuses ends the call before doc.save (line 57).
create_docx_report(fs, content, filepath, title) ==
    IF ~XmlCompatible(title) \/ ~XmlCompatible(content)
    THEN [raised |-> TRUE, files |-> fs]
    ELSE [raised |-> FALSE,
          files |-> Put(fs, filepath,
                        DocxFile(<< [run |-> RunContent(title), style |-> "Title"],
                                    [run |-> RunContent(content), style |-> "Normal"] >>))]

RECURSIVE ParagraphTextsUnstripped(_)
ParagraphTextsUnstripped(paragraphs) ==
    IF paragraphs = <<>> THEN <<>>
    ELSE (IF Strip(ParagraphText(Head(paragraphs))) # <<>>
          THEN <<ParagraphText(Head(paragraphs))>> ELSE <<>>)
         \o ParagraphTextsUnstripped(Tail(paragraphs))

\* Lines 37-39: the stripped text of every paragraph that is not blank.
RECURSIVE ParagraphTexts(_)
ParagraphTexts(paragraphs) ==
    IF paragraphs = <<>> THEN <<>>
    ELSE (IF Strip(ParagraphText(Head(paragraphs))) # <<>>
          THEN <<Strip(ParagraphText(Head(paragraphs)))>> ELSE <<>>)
         \o ParagraphTexts(Tail(paragraphs))

DocxToTextUnstripped(fs, filepath) ==
    IF filepath \notin DOMAIN fs THEN [raised |-> FALSE, value |-> <<>>]
    ELSE IF fs[filepath].kind # "docx" THEN [raised |-> TRUE, value |-> <<>>]
    ELSE [raised |-> FALSE,
          value |-> Join(<<"\n">>, ParagraphTextsUnstripped(fs[filepath].paragraphs))]

\* Lines 31-41.  Document(filepath) raises for a file that is no .docx package
\* (line 36), and nothing catches it.
docx_to_text(fs, filepath) ==
    IF filepath \notin DOMAIN fs THEN [raised |-> FALSE, value |-> <<>>]
    ELSE IF fs[filepath].kind # "docx" THEN [raised |-> TRUE, value |-> <<>>]
    ELSE [raised |-> FALSE,
          value |-> Join(<<"\n">>, ParagraphTexts(fs[filepath].paragraphs))]

\* Lines 91-95: a paragraph of the story for every line that is not blank.
RECURSIVE StoryParagraphs(_)
StoryParagraphs(lines) ==
    IF lines = <<>> THEN <<>>
    ELSE (IF Strip(Head(lines)) # <<>>
          THEN <<[text |-> Head(lines), style |-> "Content"]>> ELSE <<>>)
         \o StoryParagraphs(Tail(lines))

\* Lines 59-97: the text of the .docx file under the fixed title "Project Report",
\* built into a PDF at pdf_path.  What docx_to_text raises (line 64) ends the call
\* before the PDF is written.
docx_to_pdf(fs, docx_path, pdf_path) ==
    LET text == docx_to_text(fs, docx_path) IN
    IF text.raised THEN [raised |-> TRUE, files |-> fs]
    ELSE [raised |-> FALSE,
          files |-> Put(fs, pdf_path,
                        PdfFile(<<[text |-> <<"Project Report">>, style |-> "CustomTitle"]>>
                                \o StoryParagraphs(SplitOn(text.value, <<"\n">>))))]

\* directory.rglob("*"): the path lies below the directory.
IsUnder(path, directory) ==
    Len(path) > Len(directory) /\ SubSeq(path, 1, Len(directory)) = directory

\* Lines 111-121: every old file below the directory is unlinked.
cleanup_old_files(fs, directory) ==
    [p \in {q \in DOMAIN fs : ~(IsUnder(q, directory) /\ fs[q].old)} |-> fs[p]]

(***************************************************************************)
(* The files below data/reports under every sequence of the calls that     *)
(* write, read or remove them, with time passing in between.               *)
(***************************************************************************)
\* A padded title besides the default one.
ReportTitles == { DefaultTitle, <<" ","T","1"," ">> }

\* An analysis text with whitespace around it, one with a carriage return and a
\* line feed inside, a blank one, and one with a form feed.
ReportTexts == { <<" ","a","\n">>, <<"a","\r","\n"," ","b">>, <<" ">>, <<"a","\f","b">> }

\* Two pairs that differ in the model and in the type.
ReportPairs == { <<"openai", "technical">>, <<"claude", "financial">> }

\* The report converted to PDF.
PdfPairs == { <<"openai", "technical">> }

NotesPath == <<"data", "reports", "openai", <<"notes", ".json">>>>

\* A report path and a path that is no report's.
JsonPaths == { get_report_path("openai", "technical"), NotesPath }

\* {"a": 1} and {}
JsonData == { << [key |-> <<"a">>, value |-> 1] >>, <<>> }

CleanupDirectories == { REPORTS_DIR, <<"data", "reports", "claude">> }

InitReport ==
    /\ fileRet = NoFileCall
    /\ files = EmptyDict
    /\ messages = <<>>
    /\ orch = IdleOrch
    /\ calls = <<>>
    /\ writes = <<>>
    /\ agentRet = NoCall
    /\ agent = DescriptionAgent
    /\ CostIdle
    /\ DocIdle
    /\ ParseIdle

CreateDocxReport ==
    \E pair \in ReportPairs, content \in ReportTexts, title \in ReportTitles :
        LET filepath == get_report_path(pair[1], pair[2]) IN
        /\ files' = create_docx_report(files, content, filepath, title).files
        /\ fileRet' = [NoFileCall EXCEPT !.op = "create_docx_report",
                          !.filepath = filepath, !.content = content, !.title = title,
                          !.raised = create_docx_report(files, content, filepath,
                                                        title).raised]
        /\ UNCHANGED <<messages, orch, calls, writes, agentRet, agent,
                       costVars, docVars, parseVars>>

DocxToText ==
    \E pair \in ReportPairs :
        LET filepath == get_report_path(pair[1], pair[2])
            r == docx_to_text(files, filepath)
        IN  /\ fileRet' = [NoFileCall EXCEPT !.op = "docx_to_text", !.filepath = filepath,
                              !.raised = r.raised, !.value = r.value]
            /\ UNCHANGED <<agentVars, costVars, docVars, parseVars>>

SaveJson ==
    \E data \in JsonData, filepath \in JsonPaths :
        /\ files' = save_json(files, data, filepath)
        /\ fileRet' = [NoFileCall EXCEPT !.op = "save_json", !.filepath = filepath]
        /\ UNCHANGED <<messages, orch, calls, writes, agentRet, agent,
                       costVars, docVars, parseVars>>

DocxToPdf ==
    \E pair \in PdfPairs :
        LET r == docx_to_pdf(files, get_report_path(pair[1], pair[2]),
                             get_pdf_path(pair[1], pair[2]))
        IN  /\ files' = r.files
            /\ fileRet' = [NoFileCall EXCEPT !.op = "docx_to_pdf",
                              !.filepath = get_pdf_path(pair[1], pair[2]),
                              !.raised = r.raised]
            /\ UNCHANGED <<messages, orch, calls, writes, agentRet, agent,
                           costVars, docVars, parseVars>>

CleanupOldFiles ==
    \E directory \in CleanupDirectories :
        /\ files' = cleanup_old_files(files, directory)
        /\ fileRet' = [NoFileCall EXCEPT !.op = "cleanup_old_files", !.filepath = directory]
        /\ UNCHANGED <<messages, orch, calls, writes, agentRet, agent,
                       costVars, docVars, parseVars>>

\* More than max_age_days pass without a call: every file there is is old.
TimePasses ==
    /\ \E p \in DOMAIN files : ~files[p].old
    /\ files' = [p \in DOMAIN files |-> [files[p] EXCEPT !.old = TRUE]]
    /\ UNCHANGED <<messages, orch, calls, writes, agentRet, agent, fileRet,
                   costVars, docVars, parseVars>>

NextReport ==
    \/ CreateDocxReport
    \/ DocxToText
    \/ SaveJson
    \/ DocxToPdf
    \/ CleanupOldFiles
    \/ TimePasses

SpecReport == InitReport /\ [][NextReport]_vars

(***************************************************************************)
(* Claims about the report files.                                          *)
(***************************************************************************)
\* A report has just been written and is read back in this step.
ReadBack ==
    /\ fileRet.op = "create_docx_report"
    /\ ~fileRet.raised
    /\ fileRet'.op = "docx_to_text"
    /\ fileRet'.filepath = fileRet.filepath
    /\ fileRet.filepath \in DOMAIN files
    /\ files[fileRet.filepath].kind = "docx"

\* C11 as stated: a report that was just written, for the first time or over an
\* earlier one of the same model and type, reads back as the analysis text that was
\* written, unchanged.
C11_ReadBackIsTheText ==
    [][ReadBack => fileRet'.value = fileRet.content]_vars

\* The text with a line feed in the place of every carriage return.
LineFeedsForReturns(text) ==
    [i \in 1..Len(text) |-> IF text[i] = "\r" THEN "\n" ELSE text[i]]

\* The text without the whitespace around it, carriage returns read as line feeds.
Trimmed(text) == Strip(LineFeedsForReturns(text))

\* The text a report written with this title and content reads back as.
TitledText(title, content) ==
    IF Trimmed(content) = <<>> THEN Trimmed(title)
    ELSE IF Trimmed(title) = <<>> THEN Trimmed(content)
    ELSE Trimmed(title) \o <<"\n">> \o Trimmed(content)

\* C11, amended: a report that was just written, for the first time or over an
\* earlier one of the same model and type, reads back as its title on a line of its
\* own followed by the analysis text, each with a line feed for every carriage
\* return and without its leading and trailing whitespace; a blank analysis text
\* reads back as the title alone.
C11_ReadBackIsTitleAndTrimmedText ==
    [][ReadBack => (~fileRet'.raised
                    /\ fileRet'.value = TitledText(fileRet.title, fileRet.content))]_vars

\* C11's case, with the report written twice: the technical report of openai was
\* written under the title T1 and converted to PDF, then written again under the
\* default title with a text that has a carriage return, and read back.
C11_Witness ==
    /\ fileRet.op = "docx_to_text"
    /\ fileRet.filepath = get_report_path("openai", "technical")
    /\ fileRet.filepath \in DOMAIN files
    /\ files[fileRet.filepath].kind = "docx"
    /\ files[fileRet.filepath].paragraphs[2].run = <<"a","<w:br/>","<w:br/>"," ","b">>
    /\ fileRet.value = <<"R","e","p","o","r","t","\n","a","\n","\n"," ","b">>
    /\ get_pdf_path("openai", "technical") \in DOMAIN files
    /\ files[get_pdf_path("openai", "technical")].kind = "pdf"
    /\ Len(files[get_pdf_path("openai", "technical")].paragraphs) >= 2
    /\ files[get_pdf_path("openai", "technical")].paragraphs[2].text = <<"T","1">>

\* Every pair of a model of MODELS and a report type.
ConfigPairs == {<<m, REPORT_TYPES[j]>> : m \in MODELS, j \in 1..Len(REPORT_TYPES)}

\* Distinct (model, type) pairs have distinct report paths, of either extension,
\* and no report path is the PDF path of a pair.
ReportPathsDistinct ==
    \A p \in ConfigPairs, q \in ConfigPairs :
        /\ p # q => /\ get_report_path(p[1], p[2]) # get_report_path(q[1], q[2])
                    /\ get_pdf_path(p[1], p[2]) # get_pdf_path(q[1], q[2])
        /\ get_report_path(p[1], p[2]) # get_pdf_path(q[1], q[2])

\* Every .docx file is the report of a pair written to, at the path of the pair, so
\* there is at most one per pair.
OneFilePerPair ==
    LET reports == {path \in DOMAIN files : files[path].kind = "docx"} IN
    /\ \A path \in reports : \E p \in ReportPairs : path = get_report_path(p[1], p[2])
    /\ Cardinality(reports) <= Cardinality(ReportPairs)

\* What a file holds, whenever it was written.
Holds(file) == [kind |-> file.kind, paragraphs |-> file.paragraphs, text |-> file.text]

\* The analysis text a report file holds: the text of the paragraph after the title.
AnalysisText(file) == ParagraphText(file.paragraphs[2])

\* The step is a report write, or a read of a report.
WritesOrReadsReport == fileRet'.op \in {"create_docx_report", "docx_to_text"}

\* The step is a report write to this path that was carried out.
WritesReportAt(path) ==
    /\ fileRet'.op = "create_docx_report"
    /\ ~fileRet'.raised
    /\ fileRet'.filepath = path

\* A step that writes a report leaves the analysis text, as it was given, in the
\* file of the pair; every other file, the report of another pair or not, is there
\* or not as before and holds what it held.  A step that reads a report changes no
\* file.
WriteKeepsTextAndOtherReports ==
    WritesOrReadsReport =>
        \A path \in (DOMAIN files) \cup (DOMAIN files') :
            IF WritesReportAt(path)
            THEN /\ path \in DOMAIN files'
                 /\ files'[path].kind = "docx"
                 /\ AnalysisText(files'[path]) = fileRet'.content
            ELSE /\ path \in DOMAIN files'
                 /\ path \in DOMAIN files
                 /\ Holds(files'[path]) = Holds(files[path])

\* C12 as stated: the report path is given by (model_name, report_type), distinct
\* pairs have distinct paths, and under report writes there is at most one file per
\* pair (the one at its path), holding the analysis text of the last write for the
\* pair as that text was given.
C12_LastWriteHeldAsGiven ==
    /\ [](ReportPathsDistinct /\ OneFilePerPair)
    /\ [][WriteKeepsTextAndOtherReports]_vars

\* As WriteKeepsTextAndOtherReports, the text in the file having a line break, which
\* reads as a line feed, for every carriage return of the text that was written.  A
\* call that is refused for its text is no write: it changes no file.
WriteKeepsOtherReports ==
    WritesOrReadsReport =>
        \A path \in (DOMAIN files) \cup (DOMAIN files') :
            IF WritesReportAt(path)
            THEN /\ path \in DOMAIN files'
                 /\ files'[path].kind = "docx"
                 /\ AnalysisText(files'[path]) = LineFeedsForReturns(fileRet'.content)
            ELSE /\ path \in DOMAIN files'
                 /\ path \in DOMAIN files
                 /\ Holds(files'[path]) = Holds(files[path])

\* C12, amended: the report path is given by (model_name, report_type), distinct
\* pairs have distinct paths, and under report writes there is at most one file per
\* pair (the one at its path), holding the analysis text of the last write for the
\* pair with a line break for every carriage return: a write leaves that text there
\* and leaves every other file as it was.
C12_OneReportPerPairLastWriteWins ==
    /\ [](ReportPathsDistinct /\ OneFilePerPair)
    /\ [][WriteKeepsOtherReports]_vars

\* C12's case: the technical report of openai, converted to PDF when it held the
\* text with a carriage return, was just written again with a blank text, and the
\* financial report of claude, written before and old by now, holds another text.
C12_Witness ==
    /\ fileRet.op = "create_docx_report"
    /\ ~fileRet.raised
    /\ fileRet.filepath = get_report_path("openai", "technical")
    /\ fileRet.content = <<" ">>
    /\ AnalysisText(files[get_report_path("openai", "technical")]) = <<" ">>
    /\ ~files[get_report_path("openai", "technical")].old
    /\ get_pdf_path("openai", "technical") \in DOMAIN files
    /\ files[get_pdf_path("openai", "technical")].kind = "pdf"
    /\ Len(files[get_pdf_path("openai", "technical")].paragraphs) = 4
    /\ files[get_pdf_path("openai", "technical")].paragraphs[4].text = <<" ","b">>
    /\ get_report_path("claude", "financial") \in DOMAIN files
    /\ files[get_report_path("claude", "financial")].kind = "docx"
    /\ files[get_report_path("claude", "financial")].old
    /\ AnalysisText(files[get_report_path("claude", "financial")]) = <<" ","a","\n">>

(***************************************************************************)
(* Claims about the orchestrator's session and the chat history.           *)
(***************************************************************************)
\* A step that enters start_conversation: a prompt joins the history of the idle page.
StartsConversation == orch.pc = "idle" /\ Len(messages') > Len(messages)

\* A step of generate_reports: its entry, a model's completion, or its return.
GeneratesReports == orch.pc = "gen_await" \/ orch'.pc = "gen_await"

\* C13: the first start_conversation takes the orchestrator from no_session to
\* collecting, no later operation (a prompt, a failing chat agent, a reset, a report
\* generation) takes it out of collecting, and every step of generate_reports,
\* whether its models reply or raise or a report write fails, leaves the session
\* state, the orchestrator's ProjectData and the message history as they were.
C13_CollectingPersistsGenerateIsQuery ==
    [][ /\ StartsConversation => agent'.session = "collecting"
        /\ agent.session = "collecting" => agent'.session = "collecting"
        /\ agent'.session # agent.session => StartsConversation
        /\ GeneratesReports =>
               /\ agent'.session = agent.session
               /\ agent'.project_data = agent.project_data
               /\ messages' = messages ]_vars

\* C13's case: generate_reports was taken from collecting with a history of one
\* exchange, one model failed and one succeeded, and the orchestrator is collecting,
\* with the history and the ProjectData it had.
C13_Witness ==
    /\ agentRet.op = "generate_reports"
    /\ agent.session = "collecting"
    /\ agent.project_data.user_responses = EmptyDict
    /\ Len(messages) = 2
    /\ Len(calls) = 2
    /\ calls[1].content = Transcript(messages) \o Prompt
    /\ calls[1].outcome.kind = "raise"
    /\ calls[2].outcome.kind = "reply"
    /\ calls[2].outcome.fails = ""

(***************************************************************************)
(* tools/cost_calculator.py: estimate_hours_from_description               *)
(***************************************************************************)
\* Lines 97-123
task_estimates ==
    [frontend |-> [simple |-> 8, medium |-> 16, complex |-> 32],
     backend |-> [simple |-> 12, medium |-> 24, complex |-> 48],
     database |-> [simple |-> 16, medium |-> 32, complex |-> 64],
     cloud |-> [simple |-> 20, medium |-> 40, complex |-> 80],
     testing |-> [simple |-> 8, medium |-> 16, complex |-> 24]]

\* Line 148: the default of the second .get
FallbackHours == 16

\* Line 128
SimpleWords == << <<"s","i","m","p","l","e">>,
<<"b","a","s","i","c">>,
<<"q","u","i","c","k">>,
<<"m","i","n","o","r">> >>

\* Line 130
ComplexWords ==
    << <<"c","o","m","p","l","e","x">>,
       <<"a","d","v","a","n","c","e","d">>,
       <<"s","o","p","h","i","s","t","i","c","a","t","e","d">>,
       <<"c","o","m","p","r","e","h","e","n","s","i","v","e">> >>

ComplexityComplexFirst(description_lower) ==
    IF AnyKeyword(description_lower, ComplexWords) THEN "complex"
    ELSE IF AnyKeyword(description_lower, SimpleWords) THEN "simple"
    ELSE "medium"

\* Lines 126-131
Complexity(description_lower) ==
    IF AnyKeyword(description_lower, SimpleWords) THEN "simple"
    ELSE IF AnyKeyword(description_lower, ComplexWords) THEN "complex"
    ELSE "medium"

\* Lines 134-146
RoleType(role_lower) ==
    IF Contains(role_lower, <<"f","r","o","n","t","e","n","d">>) THEN "frontend"
    ELSE IF Contains(role_lower, <<"b","a","c","k","e","n","d">>) THEN "backend"
    ELSE IF Contains(role_lower, <<"d","a","t","a","b","a","s","e">>) THEN "database"
    ELSE IF Contains(role_lower, <<"c","l","o","u","d">>) THEN "cloud"
    ELSE IF Contains(role_lower, <<"t","e","s","t">>) THEN "testing"
    ELSE "backend"

\* Lines 89-148; the two .get of line 148 with their defaults.
estimate_hours_from_description(description, role) ==
    LET complexity == Complexity(Lower(description))
        role_type == RoleType(Lower(role))
        row == IF role_type \in DOMAIN task_estimates
               THEN task_estimates[role_type] ELSE EmptyDict
    IN  IF complexity \in DOMAIN row THEN row[complexity] ELSE FallbackHours

(***************************************************************************)
(* The hour estimate, over descriptions of a few words and roles.          *)
(***************************************************************************)
MaxWords == 2

\* Signal words of both tiers in several cases, one inside a longer word, and a
\* word that is no signal.
DescriptionWords ==
    { <<"S","i","m","p","l","e">>,
      <<"Q","U","I","C","K">>,
      <<"b","a","s","i","c">>,
      <<"m","i","n","o","r","i","t","y">>,
      <<"c","o","m","p","l","e","x">>,
      <<"A","d","v","a","n","c","e","d">>,
      <<"s","o","p","h","i","s","t","i","c","a","t","e","d">>,
      <<"C","O","M","P","R","E","H","E","N","S","I","V","E">>,
      <<"l","o","g","i","n">> }

Descriptions == {Join(<<" ">>, ws) : ws \in SeqsUpTo(DescriptionWords, MaxWords)}

\* The five default roles, roles naming two categories, a role with "test" but not
\* "testing", and roles naming none.
EstimateRoles ==
    { <<"F","r","o","n","t","e","n","d"," ","E","n","g","i","n","e","e","r">>,
      <<"B","a","c","k","e","n","d"," ","E","n","g","i","n","e","e","r">>,
      <<"D","a","t","a","b","a","s","e"," ","E","n","g","i","n","e","e","r">>,
      <<"C","l","o","u","d"," ","E","n","g","i","n","e","e","r">>,
      <<"T","e","s","t","i","n","g"," ","E","n","g","i","n","e","e","r">>,
      <<"Q","A"," ","T","e","s","t","e","r">>,
      <<"C","L","O","U","D"," ","d","a","t","a","b","a","s","e"," ","a","d","m","i","n">>,
      <<"B","a","c","k","e","n","d"," ","a","n","d"," ","F","r","o","n","t","e","n","d">>,
      <<"D","e","s","i","g","n","e","r">>,
      <<>> }

InitEstimate ==
    /\ estimated \in [description : Descriptions, role : EstimateRoles]
    /\ payFile = AbsentFile
    /\ costRet = NoCall
    /\ DocIdle
    /\ ParseIdle
    /\ AgentIdle
    /\ FileIdle

EstimateHours ==
    /\ costRet' = [op |-> "estimate_hours_from_description", raised |-> "",
                   value |-> estimate_hours_from_description(estimated.description, estimated.role)]
    /\ UNCHANGED <<payFile, estimated, docVars, parseVars, agentVars, fileVars>>

NextEstimate == EstimateHours

SpecEstimate == InitEstimate /\ [][NextEstimate]_vars

(***************************************************************************)
(* Claims about the hour estimate.                                         *)
(***************************************************************************)
\* Some letter-case variant of word occurs in text.
Mentions(text, word) ==
    \E i \in 1..(Len(text) - Len(word) + 1) :
        \A j \in 1..Len(word) :
            text[i + j - 1] = word[j]
            \/ \E k \in 1..Len(LowerCase) :
                   LowerCase[k] = word[j] /\ UpperCase[k] = text[i + j - 1]

\* The tier of a description.
Tier(description) ==
    IF \E w \in {<<"s","i","m","p","l","e">>,
    <<"b","a","s","i","c">>,
    <<"q","u","i","c","k">>,
    <<"m","i","n","o","r">>} : Mentions(description, w)
    THEN "simple"
    ELSE IF \E w \in {<<"c","o","m","p","l","e","x">>,
    <<"a","d","v","a","n","c","e","d">>,
    <<"s","o","p","h","i","s","t","i","c","a","t","e","d">>,
    <<"c","o","m","p","r","e","h","e","n","s","i","v","e">>} :
                Mentions(description, w)
    THEN "complex"
    ELSE "medium"

\* The category of a role, with testingWord as the signal of the testing category.
Category(role, testingWord) ==
    IF Mentions(role, <<"f","r","o","n","t","e","n","d">>) THEN "frontend"
    ELSE IF Mentions(role, <<"b","a","c","k","e","n","d">>) THEN "backend"
    ELSE IF Mentions(role, <<"d","a","t","a","b","a","s","e">>) THEN "database"
    ELSE IF Mentions(role, <<"c","l","o","u","d">>) THEN "cloud"
    ELSE IF Mentions(role, testingWord) THEN "testing"
    ELSE "backend"

\* The table of hours by category and tier.
HoursTable ==
    [frontend |-> [simple |-> 8, medium |-> 16, complex |-> 32],
     backend |-> [simple |-> 12, medium |-> 24, complex |-> 48],
     database |-> [simple |-> 16, medium |-> 32, complex |-> 64],
     cloud |-> [simple |-> 20, medium |-> 40, complex |-> 80],
     testing |-> [simple |-> 8, medium |-> 16, complex |-> 24]]

\* C14 as stated: the estimate is the table value of the tier of the description and
\* the category of the role, where the category is the first of frontend, backend,
\* database, cloud and testing that the role mentions, and backend when it mentions
\* none.
C14_EstimateIsTableValueTesting ==
    costRet.op = "estimate_hours_from_description" =>
        costRet.value = HoursTable[Category(estimated.role, <<"t","e","s","t","i","n","g">>)][Tier(estimated.description)]

\* C14, amended: the same with "test" as the signal of the testing category, so that
\* a role such as "QA Tester" is of the testing category; the estimate is then always
\* the table value of its (category, tier), every such combination being in the
\* table.
C14_EstimateIsTableValue ==
    costRet.op = "estimate_hours_from_description" =>
        /\ costRet.value = HoursTable[Category(estimated.role, <<"t","e","s","t">>)][Tier(estimated.description)]
        /\ \E c \in DOMAIN HoursTable :
               \E t \in DOMAIN HoursTable[c] : costRet.value = HoursTable[c][t]

\* C14's case: a description with a signal of both tiers, in upper case, for a role
\* that mentions "test" but not "testing": the simple tier of the testing category.
C14_Witness ==
    /\ costRet.op = "estimate_hours_from_description"
    /\ estimated.description = <<"Q","U","I","C","K"," ","c","o","m","p","l","e","x">>
    /\ estimated.role = <<"Q","A"," ","T","e","s","t","e","r">>
    /\ costRet.value = 8

(***************************************************************************)
(* Claims about the order of the delegations of generate_reports.          *)
(***************************************************************************)
Returned(outcome) == outcome.kind \in {"reply", "raise"}

\* The report types a delegation that ended with this outcome has written, in order.
TypesWritten(outcome) ==
    IF outcome.kind # "reply" THEN <<>>
    ELSE IF outcome.fails = "" THEN <<"technical", "financial">>
    ELSE IF outcome.fails = "financial" THEN <<"technical">>
    ELSE <<>>

\* The paths written by the first n delegations, in order.
RECURSIVE PathsWritten(_)
PathsWritten(n) ==
    IF n = 0 THEN <<>>
    ELSE PathsWritten(n - 1)
         \o [k \in 1..Len(TypesWritten(calls[n].outcome)) |->
                get_report_path(Models[n], TypesWritten(calls[n].outcome)[k])]

\* The results dictionary of the generate_reports call, while it runs and once it
\* has returned.
ResultsSoFar == IF orch.pc = "gen_await" THEN orch.results ELSE agentRet.value

\* C15: during and after a generate_reports call, the delegations made are those to
\* the first models of the enumeration, one each and in its order; every one but
\* the last has returned, a delegation has returned exactly when its model has its
\* entry in the results, and the report writes made are those of the returned
\* delegations in that order, the technical report before the financial one; at
\* return every model was delegated to once.  At no time are two delegations
\* awaited.
C15_OneDelegationAtATimeInOrder ==
    /\ Cardinality({i \in 1..Len(calls) : ~Returned(calls[i].outcome)}) <= 1
    /\ (orch.pc = "gen_await" \/ agentRet.op = "generate_reports") =>
           /\ Len(calls) <= Len(Models)
           /\ orch.pc = "gen_await" => (Len(calls) >= 1 /\ ~Returned(calls[Len(calls)].outcome))
           /\ orch.pc # "gen_await" => Len(calls) = Len(Models)
           /\ \A i \in 1..Len(calls) :
                  /\ calls[i].agent = AgentName[Models[i]]
                  /\ i < Len(calls) => Returned(calls[i].outcome)
                  /\ Returned(calls[i].outcome) = (Models[i] \in DOMAIN ResultsSoFar)
           /\ [k \in 1..Len(writes) |-> writes[k].path] = PathsWritten(Len(calls))

\* C15's case: the first model's delegation has returned and both its reports are
\* written, technical first, and only now the second model's delegation is awaited.
C15_Witness ==
    /\ orch.pc = "gen_await"
    /\ Len(calls) = 2
    /\ calls[1].outcome.kind = "reply"
    /\ calls[1].outcome.fails = ""
    /\ calls[2].outcome = Pending
    /\ Len(writes) = 2
    /\ writes[1].path = get_report_path(Models[1], "technical")
    /\ writes[2].path = get_report_path(Models[1], "financial")
    /\ DOMAIN orch.results = {Models[1]}

(***************************************************************************)
(* Claims about the chat history of the page.                              *)
(***************************************************************************)
\* C16: whenever no prompt or report generation is in progress, the stored history
\* has even length and alternates user, assistant, user, assistant, ..., so that
\* every user message is followed by the reply to it.
C16_HistoryAlternates ==
    orch.pc = "idle" =>
        /\ Len(messages) % 2 = 0
        /\ \A i \in 1..Len(messages) :
               messages[i].role = IF i % 2 = 1 THEN "user" ELSE "assistant"

=============================================================================
